---- MODULE Spec2Model ----
(***************************************************************************)
(* A model of app.py: the memoized connection pool, the context manager    *)
(* get_db_connection, the nine data access functions and the Streamlit     *)
(* handlers that call them, against a PostgreSQL store holding the two     *)
(* tables that init_database declares.                                     *)
(*                                                                         *)
(* Two specifications share the module.  Spec runs the data access         *)
(* functions statement by statement, every library call (getconn, cursor,  *)
(* execute, commit, rollback, putconn) being one step.  SpecPool opens the *)
(* two library calls of get_db_connection and the cache of                 *)
(* init_connection_pool into the steps the libraries take, for the         *)
(* properties that depend on how sessions interleave inside them.          *)
(***************************************************************************)
EXTENDS Integers, Sequences, FiniteSets, TLC

\* The browser sessions; Streamlit runs the script of each in its own thread.
Sessions == {"s1", "s2"}

\* SERIAL values each table's sequence hands out before the model stops inserting.
MaxId == 2

\* getconn calls the followed sessions make before the pool-level model stops.
MaxRequests == 3

\* psycopg2.pool.SimpleConnectionPool(1, 10, ...)
minconn == 1
maxconn == 10

\* What a text_input can hold: the empty string or some text.
Names == {"", "n"}
Emails == {"", "a", "b"}
Ids == 1..MaxId
\* The keys getconn can draw, and names for the connections alive at one time.
KeyIds == 1..MaxRequests
ConnIds == 1..(Cardinality(Sessions) + minconn + 1)

CustomerFns == {"add_customer", "update_customer", "delete_customer"}
InventoryFns == {"add_inventory_item", "update_inventory_item", "delete_inventory_item"}
ReadFns == {"get_all_customers", "get_all_inventory"}
MutatingFns == CustomerFns \cup InventoryFns
\* The functions that return a bare message, not a (success, message) pair.
MessageOnlyFns == InventoryFns \cup {"delete_customer"}

VARIABLES
    pool,        \* what init_connection_pool has memoized: "unset", "pool", "none"
    idle,        \* connections lying in the pool
    used,        \* the sessions holding a checked-out connection
    schema,      \* whether the two tables exist
    customers,   \* committed rows of customers
    inventory,   \* committed rows of inventory
    customerSeq, \* customers_id_seq: the next SERIAL value
    inventorySeq,
    pc,          \* where each session's script is
    call,        \* the data access function a session is in, with its arguments
    txn,         \* the open transaction of the session's connection
    exc,         \* the exception in flight in the session, "none" if none
    result,      \* what the function returned
    ui,          \* what the handler showed last
    \* Inside the libraries (SpecPool):
    lock,        \* st.cache_resource's compute lock: the session holding it, or "free"
    created,     \* how many SimpleConnectionPool objects were constructed
    keys,        \* the pool's _keys counter
    free,        \* the pool's _pool list of idle connections
    usedKeys,    \* the pool's _used dict: key -> connection, 0 where the key is absent
    rused,       \* the pool's _rused dict: connection -> key, 0 where it is absent
    others,      \* connections checked out by requests of sessions not followed here
    key,         \* the key local to a session's getconn or putconn call
    conn         \* the connection get_db_connection yielded to the session

\* The state of the script and the store.
scriptVars == <<idle, used, schema, customers, inventory, customerSeq, inventorySeq,
                txn, ui>>
\* The state inside st.cache_resource and SimpleConnectionPool.
libraryVars == <<lock, created, keys, free, usedKeys, rused, others, key, conn>>

vars == <<pool, pc, call, exc, result, scriptVars, libraryVars>>

NoCall == [fn |-> "none", id |-> 0, name |-> "", email |-> ""]
NoTxn == [kind |-> "none", id |-> 0, rowcount |-> 0]
NoResult == [status |-> "none", message |-> "none"]

Init ==
    /\ pool = "unset"
    /\ idle = 0
    /\ used = {}
    /\ schema = FALSE
    /\ customers = {}
    /\ inventory = {}
    /\ customerSeq = 1
    /\ inventorySeq = 1
    /\ pc = [s \in Sessions |-> "idle"]
    /\ call = [s \in Sessions |-> NoCall]
    /\ txn = [s \in Sessions |-> NoTxn]
    /\ exc = [s \in Sessions |-> "none"]
    /\ result = [s \in Sessions |-> NoResult]
    /\ ui = [s \in Sessions |-> "none"]
    /\ lock = "free"
    /\ created = 0
    /\ keys = 0
    /\ free = <<>>
    /\ usedKeys = [k \in KeyIds |-> 0]
    /\ rused = [c \in ConnIds |-> 0]
    /\ others = 0
    /\ key = [s \in Sessions |-> 0]
    /\ conn = [s \in Sessions |-> 0]

(***************************************************************************)
(* The store: PostgreSQL with the schema of init_database.                 *)
(***************************************************************************)

\* The row of `rows` with id `id`, as a set (empty when WHERE id=%s matches nothing).
Matching(rows, id) == {r \in rows : r.id = id}

\* email VARCHAR(255) UNIQUE: whether a row other than `id` already holds `email`.
EmailTaken(rows, id, email) == \E r \in rows : r.id # id /\ r.email = email

IsCustomerFn(fn) == fn \in CustomerFns
IsInventoryFn(fn) == fn \in InventoryFns

\* The ids and the emails a session's statement locks until its transaction ends.
\* An INSERT locks the new id and the email it claims; an UPDATE or DELETE locks the
\* row it matches, with the email the row holds and the one it is given.
LockedIds(fn, id, newId) ==
    IF fn \in {"add_customer", "add_inventory_item"} THEN {newId}
    ELSE {r.id : r \in Matching(IF IsCustomerFn(fn) THEN customers ELSE inventory, id)}

LockedEmails(fn, id, email) ==
    CASE fn = "add_customer" -> {email}
      [] fn = "update_customer" ->
            {r.email : r \in Matching(customers, id)}
                \cup (IF Matching(customers, id) = {} THEN {} ELSE {email})
      [] fn = "delete_customer" -> {r.email : r \in Matching(customers, id)}
      [] OTHER -> {}

\* Whether another session's open transaction holds a lock the statement needs:
\* PostgreSQL makes the statement wait until that transaction commits or rolls back.
Blocked(s) ==
    \E t \in Sessions \ {s} :
        /\ txn[t].kind \in {"insert", "update", "delete"}
        /\ IsCustomerFn(call[t].fn) = IsCustomerFn(call[s].fn)
        /\ \/ LockedIds(call[s].fn, call[s].id,
                        IF IsCustomerFn(call[s].fn) THEN customerSeq ELSE inventorySeq)
                 \cap LockedIds(call[t].fn, call[t].id, txn[t].id) # {}
           \/ LockedEmails(call[s].fn, call[s].id, call[s].email)
                 \cap LockedEmails(call[t].fn, call[t].id, call[t].email) # {}

\* CommitCustomers with the WHERE id=%s of UPDATE and DELETE left out.
CommitCustomersWithoutWhere(rows, c, t) ==
    CASE t.kind = "insert" ->
            rows \cup {[id |-> t.id, name |-> c.name, email |-> c.email]}
      [] t.kind = "update" -> {[id |-> r.id, name |-> c.name, email |-> c.email] : r \in rows}
      [] t.kind = "delete" -> {}
      [] OTHER -> rows

\* The rows of customers once the session's pending statement is committed: the row
\* an UPDATE or DELETE matched (and has locked since) is rewritten or removed.
CommitCustomers(rows, c, t) ==
    CASE t.kind = "insert" ->
            rows \cup {[id |-> t.id, name |-> c.name, email |-> c.email]}
      [] t.kind = "update" /\ t.rowcount > 0 ->
            {IF r.id = c.id THEN [id |-> r.id, name |-> c.name, email |-> c.email] ELSE r
                : r \in rows}
      [] t.kind = "delete" /\ t.rowcount > 0 -> {r \in rows : r.id # c.id}
      [] OTHER -> rows

\* The rows of inventory once the session's pending statement is committed.
CommitInventory(rows, c, t) ==
    CASE t.kind = "insert" -> rows \cup {[id |-> t.id, product_name |-> c.name]}
      [] t.kind = "update" /\ t.rowcount > 0 ->
            {IF r.id = c.id THEN [id |-> r.id, product_name |-> c.name] ELSE r : r \in rows}
      [] t.kind = "delete" /\ t.rowcount > 0 -> {r \in rows : r.id # c.id}
      [] OTHER -> rows

(***************************************************************************)
(* What the data access functions return.                                  *)
(***************************************************************************)

\* return on `if conn is None`
ConnectionFailed(fn) ==
    CASE fn = "init_database" -> [status |-> "None", message |-> "None"]
      [] fn \in ReadFns -> [status |-> "DataFrame", message |-> "empty"]
      [] fn \in MessageOnlyFns ->
            [status |-> "message", message |-> "Database connection failed"]
      [] OTHER -> [status |-> "False", message |-> "Database connection failed"]

\* return after conn.commit()
Succeeded(fn) ==
    CASE fn = "init_database" -> [status |-> "None", message |-> "None"]
      [] fn \in MessageOnlyFns -> [status |-> "message", message |-> "successfully!"]
      [] OTHER -> [status |-> "True", message |-> "successfully!"]

\* f"Error: {str(e)}"
ErrorMessage(e) ==
    IF e = "IntegrityError" THEN "Error: IntegrityError" ELSE "Error: OperationalError"

\* Failed without the `except psycopg2.IntegrityError` clause of add_customer.
FailedWithoutDuplicateClause(fn, e) ==
    IF fn \in MessageOnlyFns THEN [status |-> "message", message |-> ErrorMessage(e)]
    ELSE [status |-> "False", message |-> ErrorMessage(e)]

\* return of the except clause that caught `e`, after conn.rollback()
Failed(fn, e) ==
    CASE fn = "add_customer" /\ e = "IntegrityError" ->
            [status |-> "False", message |-> "Email already exists!"]
      [] fn \in MessageOnlyFns -> [status |-> "message", message |-> ErrorMessage(e)]
      [] OTHER -> [status |-> "False", message |-> ErrorMessage(e)]

\* Whether a returned value reports a failure to the caller.
IsFailure(r) ==
    \/ r.status = "False"
    \/ r.status = "message" /\ r.message # "successfully!"

(***************************************************************************)
(* The pool, one library call a step.                                      *)
(***************************************************************************)

\* init_connection_pool under st.cache_resource: the first call builds the pool, or
\* catches the failure and returns None; the value returned is memoized either way.
PoolAfterInit == IF pool = "unset" THEN {"pool", "none"} ELSE {pool}

\* The connections lying in the pool once init_connection_pool has returned `p`:
\* the constructor opens minconn of them.
IdleAfterInit(p) == IF pool = "unset" /\ p = "pool" THEN minconn ELSE idle

\* connection_pool.getconn(): a pooled connection if one lies idle, else a new one
\* unless maxconn are out (PoolError) or the server refuses it (OperationalError).
GetconnOutcomes(idleNow) ==
    IF idleNow > 0 THEN {"conn"}
    ELSE IF Cardinality(used) >= maxconn THEN {"PoolError: connection pool exhausted"}
    ELSE {"conn", "OperationalError"}

\* connection_pool.putconn(conn): the pool keeps minconn idle connections and closes
\* the rest; a connection put back inside a transaction is rolled back.
IdleAfterPutconn == IF idle < minconn THEN idle + 1 ELSE idle

(***************************************************************************)
(* The script around the data access functions.                            *)
(***************************************************************************)

\* What the handler shows for the value the function returned: the customer forms
\* branch on `success`; the delete button and the inventory handlers call
\* st.success(message) whatever the message; a view shows the table, or the
\* st.error of the get_all function that failed.
Shown(fn, r, showing) ==
    CASE fn \in MessageOnlyFns -> "success"
      [] fn \in {"add_customer", "update_customer"} ->
            IF r.status = "True" THEN "success" ELSE "error"
      [] OTHER -> IF showing = "error" THEN "error" ELSE "table"

\* The function hands control back to the script with the value `r`, or with the
\* exception `e` that nothing in it caught, the page showing `showing` so far.  An
\* exception ends the run under Streamlit's traceback; init_database's return lets
\* the page run; a handler shows the outcome and the run is over.
Return(s, fn, r, e, showing) ==
    /\ result' = [result EXCEPT ![s] = r]
    /\ exc' = [exc EXCEPT ![s] = e]
    /\ call' = [call EXCEPT ![s] = NoCall]
    /\ IF e # "none"
       THEN /\ ui' = [ui EXCEPT ![s] = "exception"]
            /\ pc' = [pc EXCEPT ![s] = "idle"]
       ELSE IF fn = "init_database"
       THEN /\ ui' = [ui EXCEPT ![s] = showing]
            /\ pc' = [pc EXCEPT ![s] = "page"]
       ELSE /\ ui' = [ui EXCEPT ![s] = Shown(fn, r, showing)]
            /\ pc' = [pc EXCEPT ![s] = "idle"]

\* with get_db_connection() as conn: if conn is None: return ...; cursor = conn.cursor()
Begin(s, fn, id, name, email, showing) ==
    /\ \E p \in PoolAfterInit :
        /\ pool' = p
        /\ IF p = "none"
           THEN /\ Return(s, fn, ConnectionFailed(fn), "none", showing)
                /\ UNCHANGED <<idle, used>>
           ELSE \E o \in GetconnOutcomes(IdleAfterInit(p)) :
                  IF o # "conn"
                  THEN /\ Return(s, fn, NoResult, o, showing)
                       /\ idle' = IdleAfterInit(p)
                       /\ UNCHANGED used
                  ELSE /\ used' = used \cup {s}
                       /\ idle' = IF IdleAfterInit(p) > 0 THEN IdleAfterInit(p) - 1 ELSE 0
                       /\ result' = [result EXCEPT ![s] = NoResult]
                       /\ ui' = [ui EXCEPT ![s] = showing]
                       /\ \/ /\ pc' = [pc EXCEPT ![s] = "execute"]
                             /\ call' = [call EXCEPT ![s] =
                                  [fn |-> fn, id |-> id, name |-> name, email |-> email]]
                             /\ exc' = [exc EXCEPT ![s] = "none"]
                          \* conn.cursor() raises: outside every try of the function
                          \/ /\ fn \notin ReadFns
                             /\ pc' = [pc EXCEPT ![s] = "exit"]
                             /\ call' = [call EXCEPT ![s] = [NoCall EXCEPT !.fn = fn]]
                             /\ exc' = [exc EXCEPT ![s] = "InterfaceError"]
    /\ UNCHANGED <<schema, customers, inventory, customerSeq, inventorySeq, txn>>
    /\ UNCHANGED libraryVars

\* The INSERTs in flight that have not drawn their SERIAL value yet.
AddsInFlight(fn) == {t \in Sessions : call[t].fn = fn /\ pc[t] = "execute"}

\* A rerun begins: the page is cleared and the module-level init_database() is called.
StartRun(s) ==
    /\ pc[s] = "idle"
    /\ Begin(s, "init_database", 0, "", "", "none")

\* What a handler does when it refuses the form: st.error(...), and the run is over.
Reject(s) ==
    /\ ui' = [ui EXCEPT ![s] = "error"]
    /\ pc' = [pc EXCEPT ![s] = "idle"]
    /\ call' = [call EXCEPT ![s] = NoCall]
    /\ UNCHANGED <<pool, idle, used, schema, customers, inventory, customerSeq,
                   inventorySeq, txn, exc, result, libraryVars>>

\* if submit: if name and email: add_customer(...) else: st.error(...)
SubmitAddCustomer(s, name, email) ==
    /\ pc[s] = "page"
    /\ IF name # "" /\ email # ""
       THEN /\ customerSeq + Cardinality(AddsInFlight("add_customer")) <= MaxId
            /\ Begin(s, "add_customer", 0, name, email, ui[s])
       ELSE Reject(s)

\* if submit: update_customer(customer_id, name, email, phone, city) -- customer_id is
\* the one the selectbox offered, which a delete of another session can have removed
SubmitUpdateCustomer(s, id, name, email) ==
    /\ pc[s] = "page"
    /\ Begin(s, "update_customer", id, name, email, ui[s])

\* if st.button("Delete Customer"): delete_customer(customer_id) -- the id of the
\* selectbox again, stale or not
ClickDeleteCustomer(s, id) ==
    /\ pc[s] = "page"
    /\ Begin(s, "delete_customer", id, "", "", ui[s])

\* if submit: if product_name: add_inventory_item(...) else: st.error(...)
SubmitAddInventory(s, name) ==
    /\ pc[s] = "page"
    /\ IF name # ""
       THEN /\ inventorySeq + Cardinality(AddsInFlight("add_inventory_item")) <= MaxId
            /\ Begin(s, "add_inventory_item", 0, name, "", ui[s])
       ELSE Reject(s)

\* if submit: update_inventory_item(item_id, product_name, category, quantity, price)
SubmitUpdateInventory(s, id, name) ==
    /\ pc[s] = "page"
    /\ Begin(s, "update_inventory_item", id, name, "", ui[s])

\* if st.button("Delete Item"): delete_inventory_item(item_id)
ClickDeleteInventory(s, id) ==
    /\ pc[s] = "page"
    /\ Begin(s, "delete_inventory_item", id, "", "", ui[s])

\* customers_df = get_all_customers() / inventory_df = get_all_inventory()
View(s, fn) ==
    /\ pc[s] = "page"
    /\ Begin(s, fn, 0, "", "", ui[s])

(***************************************************************************)
(* Inside the with block: the statement, commit or rollback, and putconn.  *)
(***************************************************************************)

\* The except clause a statement's exception `e` reaches: the mutating functions catch
\* it and go on to conn.rollback(); init_database has no try.  The statement is over
\* and its arguments are read no more.
Raise(s, e) ==
    /\ exc' = [exc EXCEPT ![s] = e]
    /\ call' = [call EXCEPT ![s] = [NoCall EXCEPT !.fn = call[s].fn]]
    /\ pc' = [pc EXCEPT ![s] = IF call[s].fn = "init_database" THEN "exit" ELSE "rollback"]

\* The transaction on the server after a statement or a commit failed: it holds
\* nothing any more, and only waits for its ROLLBACK.
Aborted == [kind |-> "aborted", id |-> 0, rowcount |-> 0]

\* cursor.execute(...) of the two CREATE TABLE IF NOT EXISTS
ExecuteCreate(s) ==
    /\ pc[s] = "execute"
    /\ call[s].fn = "init_database"
    /\ \/ /\ txn' = [txn EXCEPT ![s] = [kind |-> "ddl", id |-> 0, rowcount |-> 0]]
          /\ pc' = [pc EXCEPT ![s] = "commit"]
          /\ UNCHANGED <<exc, call>>
       \/ /\ Raise(s, "OperationalError")
          /\ UNCHANGED txn
    /\ UNCHANGED <<pool, idle, used, schema, customers, inventory, customerSeq,
                   inventorySeq, result, ui, libraryVars>>

\* INSERT, UPDATE or DELETE, by the function's name.
StatementKind(fn) ==
    CASE fn \in {"add_customer", "add_inventory_item"} -> "insert"
      [] fn \in {"update_customer", "update_inventory_item"} -> "update"
      [] OTHER -> "delete"

\* ViolatesUnique with the constraint checked on INSERT alone.
ViolatesUniqueOnInsertOnly(c) == c.fn = "add_customer" /\ EmailTaken(customers, 0, c.email)

\* Whether the statement of call `c` breaks UNIQUE (email): an INSERT of an email some
\* row holds, or an UPDATE that gives the row it matches an email another row holds.
ViolatesUnique(c) ==
    \/ c.fn = "add_customer" /\ EmailTaken(customers, 0, c.email)
    \/ /\ c.fn = "update_customer"
       /\ Matching(customers, c.id) # {}
       /\ EmailTaken(customers, c.id, c.email)

\* cursor.rowcount of the statement of call `c`.
Rowcount(c) ==
    IF StatementKind(c.fn) = "insert" THEN 1
    ELSE Cardinality(Matching(IF IsCustomerFn(c.fn) THEN customers ELSE inventory, c.id))

\* cursor.execute(INSERT / UPDATE / DELETE ...) of the six mutating functions
ExecuteWrite(s) ==
    /\ pc[s] = "execute"
    /\ call[s].fn \in MutatingFns
    /\ LET fn == call[s].fn IN
       \/ \* the server is gone, or the table is missing
          /\ Raise(s, "OperationalError")
          /\ UNCHANGED <<txn, customerSeq, inventorySeq>>
       \/ /\ schema
          /\ ~Blocked(s)
          /\ customerSeq' = IF fn = "add_customer" THEN customerSeq + 1 ELSE customerSeq
          /\ inventorySeq' = IF fn = "add_inventory_item" THEN inventorySeq + 1
                             ELSE inventorySeq
          /\ IF ViolatesUnique(call[s])
             THEN /\ Raise(s, "IntegrityError")
                  /\ txn' = [txn EXCEPT ![s] = Aborted]
             ELSE /\ txn' = [txn EXCEPT ![s] =
                        [kind |-> StatementKind(fn),
                         id |-> CASE fn = "add_customer" -> customerSeq
                                  [] fn = "add_inventory_item" -> inventorySeq
                                  [] OTHER -> 0,
                         rowcount |-> Rowcount(call[s])]]
                  /\ pc' = [pc EXCEPT ![s] = "commit"]
                  /\ UNCHANGED <<exc, call>>
    /\ UNCHANGED <<pool, idle, used, schema, customers, inventory, result, ui,
                   libraryVars>>

\* pd.read_sql_query("SELECT * FROM ... ORDER BY id", conn) of the two get_all functions
ExecuteRead(s) ==
    /\ pc[s] = "execute"
    /\ call[s].fn \in ReadFns
    /\ \/ /\ schema
          /\ result' = [result EXCEPT ![s] =
                [status |-> "DataFrame",
                 message |-> IF (IF call[s].fn = "get_all_customers"
                                 THEN customers ELSE inventory) = {}
                             THEN "empty" ELSE "rows"]]
          /\ UNCHANGED ui
       \/ \* except Exception as e: st.error(...); return pd.DataFrame()
          /\ result' = [result EXCEPT ![s] = [status |-> "DataFrame", message |-> "empty"]]
          /\ ui' = [ui EXCEPT ![s] = "error"]
    /\ pc' = [pc EXCEPT ![s] = "exit"]
    /\ UNCHANGED <<pool, idle, used, schema, customers, inventory, customerSeq,
                   inventorySeq, call, txn, exc, libraryVars>>

\* The record of a transaction that has ended, kept until the connection is put back.
Ended(t, how) == [t EXCEPT !.kind = how]

\* conn.commit(), and the return that follows it
Commit(s) ==
    /\ pc[s] = "commit"
    /\ \/ /\ schema' = (schema \/ txn[s].kind = "ddl")
          /\ customers' = IF IsCustomerFn(call[s].fn)
                          THEN CommitCustomers(customers, call[s], txn[s]) ELSE customers
          /\ inventory' = IF IsInventoryFn(call[s].fn)
                          THEN CommitInventory(inventory, call[s], txn[s]) ELSE inventory
          /\ txn' = [txn EXCEPT ![s] = Ended(txn[s], "committed")]
          /\ result' = [result EXCEPT ![s] = Succeeded(call[s].fn)]
          /\ call' = [call EXCEPT ![s] = [NoCall EXCEPT !.fn = call[s].fn]]
          /\ pc' = [pc EXCEPT ![s] = "exit"]
          /\ UNCHANGED exc
       \/ /\ Raise(s, "OperationalError")
          /\ txn' = [txn EXCEPT ![s] = Aborted]
          /\ UNCHANGED <<schema, customers, inventory, result>>
    /\ UNCHANGED <<pool, idle, used, customerSeq, inventorySeq, ui, libraryVars>>

\* conn.rollback() in an except clause, and the return that follows it
Rollback(s) ==
    /\ pc[s] = "rollback"
    /\ \/ /\ txn' = [txn EXCEPT ![s] = Ended(txn[s], "rolledback")]
          /\ result' = [result EXCEPT ![s] = Failed(call[s].fn, exc[s])]
          /\ exc' = [exc EXCEPT ![s] = "none"]
       \/ \* rollback raises inside the handler: nothing catches it
          /\ exc' = [exc EXCEPT ![s] = "OperationalError"]
          /\ UNCHANGED <<txn, result>>
    /\ pc' = [pc EXCEPT ![s] = "exit"]
    /\ UNCHANGED <<pool, idle, used, schema, customers, inventory, customerSeq,
                   inventorySeq, call, ui, libraryVars>>

\* Release with putconn after the block instead of in a finally: an exception
\* leaving the block skips it.
ReleaseWithoutFinally(s) ==
    /\ pc[s] = "exit"
    /\ used' = IF exc[s] = "none" THEN used \ {s} ELSE used
    /\ idle' = IF exc[s] = "none" THEN IdleAfterPutconn ELSE idle
    /\ txn' = [txn EXCEPT ![s] = NoTxn]
    /\ Return(s, call[s].fn, result[s], exc[s], ui[s])
    /\ UNCHANGED <<pool, schema, customers, inventory, customerSeq, inventorySeq,
                   libraryVars>>

\* finally: connection_pool.putconn(conn); the function returns or the exception
\* goes on to the script.
Release(s) ==
    /\ pc[s] = "exit"
    /\ used' = used \ {s}
    /\ idle' = IdleAfterPutconn
    /\ txn' = [txn EXCEPT ![s] = NoTxn]
    /\ Return(s, call[s].fn, result[s], exc[s], ui[s])
    /\ UNCHANGED <<pool, schema, customers, inventory, customerSeq, inventorySeq,
                   libraryVars>>

(***************************************************************************)
(* The specifications.                                                     *)
(***************************************************************************)

\* What a session does on the Customers page.
CustomerStep(s) ==
    \/ StartRun(s)
    \/ \E name \in Names, email \in Emails : SubmitAddCustomer(s, name, email)
    \/ \E id \in Ids, name \in Names, email \in Emails :
            SubmitUpdateCustomer(s, id, name, email)
    \/ \E id \in Ids : ClickDeleteCustomer(s, id)
    \/ View(s, "get_all_customers")
    \/ ExecuteCreate(s)
    \/ ExecuteWrite(s)
    \/ ExecuteRead(s)
    \/ Commit(s)
    \/ Rollback(s)
    \/ Release(s)

\* What a session does on the Inventory page.
InventoryStep(s) ==
    \/ \E name \in Names : SubmitAddInventory(s, name)
    \/ \E id \in Ids, name \in Names : SubmitUpdateInventory(s, id, name)
    \/ \E id \in Ids : ClickDeleteInventory(s, id)
    \/ View(s, "get_all_inventory")

\* Every session on the Customers page, in any interleaving.
Next == \E s \in Sessions : CustomerStep(s)

Spec == Init /\ [][Next]_vars

\* One session, on any page.
NextAll == CustomerStep("s1") \/ InventoryStep("s1")

SpecAll == Init /\ [][NextAll]_vars

(***************************************************************************)
(* Inside the libraries.  Streamlit runs every session's script in a thread *)
(* of its own and st.cache_resource hands the one pool to all of them;     *)
(* SimpleConnectionPool takes no lock (psycopg2 keeps that for             *)
(* ThreadedConnectionPool), so the statements of its getconn and putconn   *)
(* interleave between sessions.  A request here is get_db_connection       *)
(* around the body of any one data access function.                        *)
(***************************************************************************)

\* len(self._used)
UsedCount == Cardinality({k \in KeyIds : usedKeys[k] # 0}) + others

\* A name for a connection psycopg2.connect has just opened.
FreshConn ==
    CHOOSE c \in ConnIds :
        /\ rused[c] = 0
        /\ \A i \in 1..Len(free) : free[i] # c
        /\ \A s \in Sessions : conn[s] # c
        /\ \A d \in ConnIds :
              (d < c) => \/ rused[d] # 0
                         \/ \E i \in 1..Len(free) : free[i] = d
                         \/ \E s \in Sessions : conn[s] = d

\* The functions whose requests are followed: one that returns (success, message)
\* and one that returns a DataFrame.
RequestFns == {"add_customer", "get_all_customers"}

\* The requests that have entered get_db_connection and not drawn their key yet.
BeforeKey == {s \in Sessions : pc[s] \in {"lock", "compute", "getkey"}}

\* init_connection_pool() has returned `p` to get_db_connection: with None the
\* context manager yields None and the function returns its failure value.
GotPool(s, fn, p) ==
    IF p = "none"
    THEN /\ result' = [result EXCEPT ![s] = ConnectionFailed(fn)]
         /\ pc' = [pc EXCEPT ![s] = "idle"]
    ELSE /\ pc' = [pc EXCEPT ![s] = "getkey"]
         /\ UNCHANGED result

\* connection_pool = init_connection_pool(): the cached function looks its value up.
CacheLookup(s) ==
    /\ pc[s] = "idle"
    /\ keys + Cardinality(BeforeKey) < MaxRequests
    /\ exc' = [exc EXCEPT ![s] = "none"]
    /\ \E fn \in RequestFns :
          /\ call' = [call EXCEPT ![s] = [NoCall EXCEPT !.fn = fn]]
          /\ IF pool = "unset"
             THEN /\ pc' = [pc EXCEPT ![s] = "lock"]
                  /\ result' = [result EXCEPT ![s] = NoResult]
             ELSE IF pool = "none" THEN GotPool(s, fn, pool)
             ELSE /\ pc' = [pc EXCEPT ![s] = "getkey"]
                  /\ result' = [result EXCEPT ![s] = NoResult]
    /\ UNCHANGED <<pool, scriptVars, libraryVars>>

\* On a miss the cache takes the function's compute lock.
CacheLock(s) ==
    /\ pc[s] = "lock"
    /\ lock = "free"
    /\ lock' = s
    /\ pc' = [pc EXCEPT ![s] = "compute"]
    /\ UNCHANGED <<pool, exc, result, call, scriptVars, created, keys, free, usedKeys, rused,
                   others, key, conn>>

\* CacheCompute without the second look at the cache under the lock.
CacheComputeWithoutRecheck(s) ==
    /\ pc[s] = "compute"
    /\ lock' = "free"
    /\ \E p \in {"pool", "none"} :
          /\ pool' = p
          /\ created' = IF p = "pool" THEN created + 1 ELSE created
          /\ free' = IF p = "pool" THEN <<FreshConn>> ELSE free
          /\ GotPool(s, call[s].fn, p)
    /\ UNCHANGED <<exc, call, scriptVars, keys, usedKeys, rused, others, key, conn>>

\* Under the lock the cache looks again, and only on a second miss runs the body of
\* init_connection_pool: the constructor opens minconn connections, or raises and the
\* except clause returns None; the value is stored and the lock released.
CacheCompute(s) ==
    /\ pc[s] = "compute"
    /\ lock' = "free"
    /\ IF pool # "unset"
       THEN /\ GotPool(s, call[s].fn, pool)
            /\ UNCHANGED <<pool, created, free>>
       ELSE \E p \in {"pool", "none"} :
              /\ pool' = p
              /\ created' = IF p = "pool" THEN created + 1 ELSE created
              /\ free' = IF p = "pool" THEN <<FreshConn>> ELSE free
              /\ GotPool(s, call[s].fn, p)
    /\ UNCHANGED <<exc, call, scriptVars, keys, usedKeys, rused, others, key, conn>>

\* getconn -> _getkey: self._keys += 1
GetkeyIncrement(s) ==
    /\ pc[s] = "getkey"
    /\ keys' = keys + 1
    /\ pc' = [pc EXCEPT ![s] = "getkeyreturn"]
    /\ UNCHANGED <<pool, exc, result, call, scriptVars, lock, created, free, usedKeys, rused,
                   others, key, conn>>

\* getconn -> _getkey: return self._keys
GetkeyReturn(s) ==
    /\ pc[s] = "getkeyreturn"
    /\ key' = [key EXCEPT ![s] = keys]
    /\ pc' = [pc EXCEPT ![s] = "getconn"]
    /\ UNCHANGED <<pool, exc, result, call, scriptVars, lock, created, keys, free, usedKeys,
                   rused, others, conn>>

\* The request ends with exception `e` raised out of get_db_connection.
Raised(s, e) ==
    /\ exc' = [exc EXCEPT ![s] = e]
    /\ pc' = [pc EXCEPT ![s] = "idle"]
    /\ key' = [key EXCEPT ![s] = 0]
    /\ conn' = [conn EXCEPT ![s] = 0]

\* self._used[key] = conn; self._rused[id(conn)] = key; return conn
Register(s, c) ==
    /\ usedKeys' = [usedKeys EXCEPT ![key[s]] = c]
    /\ rused' = [rused EXCEPT ![c] = key[s]]
    /\ conn' = [conn EXCEPT ![s] = c]
    /\ pc' = [pc EXCEPT ![s] = "body"]
    /\ UNCHANGED <<exc, key>>

\* GetconnTake with the limit tested by `>` where the library has `==`.
GetconnTakeLateLimit(s) ==
    /\ pc[s] = "getconn"
    /\ IF usedKeys[key[s]] # 0
       THEN /\ conn' = [conn EXCEPT ![s] = usedKeys[key[s]]]
            /\ pc' = [pc EXCEPT ![s] = "body"]
            /\ UNCHANGED <<exc, key, free, usedKeys, rused>>
       ELSE IF free # <<>>
       THEN /\ free' = SubSeq(free, 1, Len(free) - 1)
            /\ Register(s, free[Len(free)])
       ELSE IF UsedCount > maxconn
       THEN /\ Raised(s, "PoolError: connection pool exhausted")
            /\ UNCHANGED <<free, usedKeys, rused>>
       ELSE /\ pc' = [pc EXCEPT ![s] = "connect"]
            /\ UNCHANGED <<exc, key, conn, free, usedKeys, rused>>
    /\ UNCHANGED <<pool, result, call, scriptVars, lock, created, keys, others>>

\* getconn -> _getconn: the connection already filed under the key, else the last of
\* the idle ones, else PoolError when maxconn are out, else go and connect.
GetconnTake(s) ==
    /\ pc[s] = "getconn"
    /\ IF usedKeys[key[s]] # 0
       THEN /\ conn' = [conn EXCEPT ![s] = usedKeys[key[s]]]
            /\ pc' = [pc EXCEPT ![s] = "body"]
            /\ UNCHANGED <<exc, key, free, usedKeys, rused>>
       ELSE IF free # <<>>
       THEN /\ free' = SubSeq(free, 1, Len(free) - 1)
            /\ Register(s, free[Len(free)])
       ELSE IF UsedCount = maxconn
       THEN /\ Raised(s, "PoolError: connection pool exhausted")
            /\ UNCHANGED <<free, usedKeys, rused>>
       ELSE /\ pc' = [pc EXCEPT ![s] = "connect"]
            /\ UNCHANGED <<exc, key, conn, free, usedKeys, rused>>
    /\ UNCHANGED <<pool, result, call, scriptVars, lock, created, keys, others>>

\* getconn -> _connect: psycopg2.connect(...), then the new connection is filed
GetconnConnect(s) ==
    /\ pc[s] = "connect"
    /\ \/ Register(s, FreshConn)
       \/ /\ Raised(s, "OperationalError")
          /\ UNCHANGED <<usedKeys, rused>>
    /\ UNCHANGED <<pool, result, call, scriptVars, lock, created, keys, free, others>>

\* try: yield conn -- the body of the data access function runs to its return or to
\* an exception nothing in it catches
Body(s) ==
    /\ pc[s] = "body"
    /\ \/ /\ result' = [result EXCEPT ![s] = Succeeded(call[s].fn)]
          /\ UNCHANGED exc
       \/ /\ exc' = [exc EXCEPT ![s] = "InterfaceError"]
          /\ UNCHANGED result
    /\ pc' = [pc EXCEPT ![s] = "put"]
    /\ UNCHANGED <<pool, call, scriptVars, libraryVars>>

\* finally: putconn -> _putconn: the key is looked up by the connection, and the
\* connection appended to the idle ones or, minconn lying there, closed
PutconnAppend(s) ==
    /\ pc[s] = "put"
    /\ IF rused[conn[s]] = 0
       THEN /\ Raised(s, "PoolError: trying to put unkeyed connection")
            /\ UNCHANGED free
       ELSE /\ key' = [key EXCEPT ![s] = rused[conn[s]]]
            /\ free' = IF Len(free) < minconn THEN Append(free, conn[s]) ELSE free
            /\ pc' = [pc EXCEPT ![s] = "putdelete"]
            /\ UNCHANGED <<exc, conn>>
    /\ UNCHANGED <<pool, result, call, scriptVars, lock, created, keys, usedKeys, rused, others>>

\* putconn -> _putconn: del self._used[key]; del self._rused[id(conn)]
PutconnDelete(s) ==
    /\ pc[s] = "putdelete"
    /\ IF usedKeys[key[s]] = 0
       THEN /\ Raised(s, "KeyError")
            /\ UNCHANGED <<usedKeys, rused>>
       ELSE /\ usedKeys' = [usedKeys EXCEPT ![key[s]] = 0]
            /\ rused' = [rused EXCEPT ![conn[s]] = 0]
            /\ IF rused[conn[s]] = 0
               THEN Raised(s, "KeyError")
               ELSE /\ pc' = [pc EXCEPT ![s] = "idle"]
                    /\ key' = [key EXCEPT ![s] = 0]
                    /\ conn' = [conn EXCEPT ![s] = 0]
                    /\ UNCHANGED exc
    /\ UNCHANGED <<pool, result, call, scriptVars, lock, created, keys, free, others>>

\* A request of some other session checks a connection out, start to end of getconn.
OtherGetconn ==
    /\ pool = "pool"
    /\ IF free # <<>>
       THEN free' = SubSeq(free, 1, Len(free) - 1)
       ELSE /\ UsedCount # maxconn
            /\ UNCHANGED free
    /\ others' = others + 1
    /\ others < maxconn
    /\ UNCHANGED <<pool, pc, exc, result, call, scriptVars, lock, created, keys, usedKeys,
                   rused, key, conn>>

\* A request of some other session puts its connection back, start to end of putconn.
OtherPutconn ==
    /\ others > 0
    /\ others' = others - 1
    /\ free' = IF Len(free) < minconn THEN Append(free, FreshConn) ELSE free
    /\ UNCHANGED <<pool, pc, exc, result, call, scriptVars, lock, created, keys, usedKeys,
                   rused, key, conn>>

NextPool ==
    \/ \E s \in Sessions :
        \/ CacheLookup(s)
        \/ CacheLock(s)
        \/ CacheCompute(s)
        \/ GetkeyIncrement(s)
        \/ GetkeyReturn(s)
        \/ GetconnTake(s)
        \/ GetconnConnect(s)
        \/ Body(s)
        \/ PutconnAppend(s)
        \/ PutconnDelete(s)
    \/ OtherGetconn
    \/ OtherPutconn

SpecPool == Init /\ [][NextPool]_vars

(***************************************************************************)
(* The claims.                                                             *)
(***************************************************************************)

InBlock == {"execute", "commit", "rollback", "exit"}
UpdateAndDeleteFns ==
    {"update_customer", "delete_customer", "update_inventory_item", "delete_inventory_item"}

\* C1: a session holds a pooled connection exactly while it is inside the with block
\* of a data access function, whichever way it leaves the block (return after commit,
\* return after rollback, exception), so that with every operation completed no
\* connection is checked out and the pool holds its connection again.
C1_ConnectionReturned ==
    /\ used = {s \in Sessions : pc[s] \in InBlock}
    /\ (\A s \in Sessions : pc[s] \notin InBlock) =>
            /\ used = {}
            /\ pool = "pool" => idle = minconn

\* C1 witness: an operation left its with block by an exception that nothing caught,
\* and its connection is back in the pool.
C1_Witness ==
    /\ pc["s1"] = "idle"
    /\ exc["s1"] = "InterfaceError"
    /\ used = {}
    /\ idle = minconn

\* C2: no data access function ends by raising to the script: every call ends with a
\* returned value.
C2_NothingPropagates == \A s \in Sessions : exc[s] # "none" => pc[s] \in InBlock

\* C3: whenever a mutating function has returned a failure, the handler has shown it
\* as an error, never as a success.
C3_FailureShownAsError ==
    \A s \in Sessions : pc[s] = "idle" /\ IsFailure(result[s]) => ui[s] = "error"

\* The stored customers hold each email at most once.
UniqueEmails == \A r1, r2 \in customers : r1.email = r2.email => r1 = r2

\* An UPDATE of session s that would give its row the email of another row raises,
\* the function then returns a failure or raises, and the rows stay as they were.
DuplicateUpdateFails(s) ==
    /\ ( /\ pc[s] = "execute"
         /\ call[s].fn = "update_customer"
         /\ \E r \in customers : r.id = call[s].id
         /\ \E r \in customers : r.id # call[s].id /\ r.email = call[s].email
         /\ pc'[s] # "execute" )
       => /\ pc'[s] = "rollback"
          /\ exc'[s] \in {"IntegrityError", "OperationalError"}
          /\ customers' = customers
    /\ ( /\ pc[s] = "rollback"
         /\ call[s].fn = "update_customer"
         /\ pc'[s] # "rollback" )
       => /\ customers' = customers
          /\ exc'[s] = "none" => /\ result'[s].status = "False"
                                 /\ txn'[s].kind = "rolledback"

\* C4: no two stored customers share an email, in any interleaving of the sessions'
\* add_customer, update_customer and delete_customer; an update_customer that would
\* give a row the email of another row fails and leaves the rows unchanged.
C4_EmailsUnique ==
    /\ [](UniqueEmails)
    /\ [][\A s \in Sessions : DuplicateUpdateFails(s)]_vars

\* C4 witness: an update_customer ran into the email of another row, both rows stored.
C4_Witness ==
    \E s \in Sessions :
        /\ pc[s] = "rollback"
        /\ call[s].fn = "update_customer"
        /\ exc[s] = "IntegrityError"
        /\ Cardinality(customers) = 2

\* The INSERT of add_customer in session s, given an email that a stored row holds,
\* raises IntegrityError unless the server is gone, and the store keeps exactly that
\* one row with the email; after the rollback the function returns
\* (False, "Email already exists!").
DuplicateAddFails(s) ==
    /\ ( /\ pc[s] = "execute"
         /\ call[s].fn = "add_customer"
         /\ \E r \in customers : r.email = call[s].email
         /\ pc'[s] # "execute" )
       => /\ pc'[s] = "rollback"
          /\ exc'[s] \in {"IntegrityError", "OperationalError"}
          /\ customers' = customers
          /\ Cardinality({r \in customers' : r.email = call[s].email}) = 1
    /\ ( /\ pc[s] = "rollback"
         /\ call[s].fn = "add_customer"
         /\ exc[s] = "IntegrityError"
         /\ pc'[s] # "rollback" )
       => /\ customers' = customers
          /\ exc'[s] = "none" =>
                /\ result'[s] = [status |-> "False", message |-> "Email already exists!"]
                /\ txn'[s].kind = "rolledback"

\* C5: add_customer with an email that a stored row holds fails with
\* (False, "Email already exists!"), its INSERT rolled back, and the store still holds
\* exactly one row with that email.
C5_DuplicateKey == [][\A s \in Sessions : DuplicateAddFails(s)]_vars

\* C5 witness: add_customer has returned the DuplicateKey outcome after its rollback.
C5_Witness ==
    \E s \in Sessions :
        /\ pc[s] = "exit"
        /\ call[s].fn = "add_customer"
        /\ txn[s].kind = "rolledback"
        /\ result[s] = [status |-> "False", message |-> "Email already exists!"]
        /\ customers # {}

\* An UPDATE or DELETE of session s whose id matched no row: once committed, the
\* function returns its success value, raises nothing, and both tables are as before.
NoMatchSucceeds(s) ==
    ( /\ pc[s] = "commit"
      /\ call[s].fn \in UpdateAndDeleteFns
      /\ txn[s].rowcount = 0
      /\ pc'[s] = "exit" )
    => /\ result'[s] = Succeeded(call[s].fn)
       /\ exc'[s] = "none"
       /\ customers' = customers
       /\ inventory' = inventory

\* C8: update_customer, delete_customer, update_inventory_item and
\* delete_inventory_item, given an id that matches no row, report success, raise
\* nothing and leave every row of both tables unchanged.
C8_NoMatchIsSuccess == [][\A s \in Sessions : NoMatchSucceeds(s)]_vars

\* C8 witness: a delete_customer whose id matched none of the stored rows has
\* committed and returned.
C8_Witness ==
    /\ pc["s1"] = "exit"
    /\ call["s1"].fn = "delete_customer"
    /\ txn["s1"].kind = "committed"
    /\ txn["s1"].rowcount = 0
    /\ result["s1"] = Succeeded("delete_customer")
    /\ customers # {}

\* C9: every stored customer has a non-empty name and a non-empty email.
C9_RequiredFields == \A r \in customers : r.name # "" /\ r.email # ""

\* The request of session s finds nothing idle and exactly maxconn connections out.
Exhausted(s) ==
    /\ pc[s] = "getconn"
    /\ usedKeys[key[s]] = 0
    /\ free = <<>>
    /\ UsedCount = maxconn

\* The step getconn takes for session s when the pool is exhausted raises PoolError
\* there and then, and leaves the pool's lists and counters as they were.
ExhaustedRaises(s) ==
    (Exhausted(s) /\ pc'[s] # pc[s])
    => /\ pc'[s] = "idle"
       /\ exc'[s] = "PoolError: connection pool exhausted"
       /\ result'[s] = NoResult
       /\ <<free, usedKeys, rused, others, keys>>' = <<free, usedKeys, rused, others, keys>>

OnePool ==
    /\ created = (IF pool = "pool" THEN 1 ELSE 0)
    /\ \A s \in Sessions :
          /\ pc[s] \in {"getkey", "getkeyreturn", "getconn", "connect", "body", "put",
                        "putdelete"} => pool = "pool"
          /\ (pc[s] = "idle" /\ call[s] # NoCall /\ pool = "none")
                => /\ result[s] = ConnectionFailed(call[s].fn)
                   /\ exc[s] = "none"

\* C7: init_connection_pool's body runs once per process, also when the first calls
\* are concurrent, and every later call is given its value; when the construction
\* failed the value is None, and a request that gets None returns its failure value
\* and raises nothing.
C7_PoolCreatedOnce ==
    /\ [](OnePool)
    /\ [][pool # "unset" => pool' = pool]_vars

\* C7 witness: two first calls missed the cache together; one has constructed the
\* pool and the other, now under the lock, is about to look again.
C7_Witness ==
    /\ pool = "pool"
    /\ created = 1
    /\ pc["s2"] = "compute"
    /\ pc["s1"] \in {"body", "put"}

\* The sessions that hold a connection: between getconn's return and putconn.
Holders == {s \in Sessions : pc[s] \in {"body", "put"}}

\* C10: no connection is held by two requests at once, and no more than maxconn
\* connections are checked out.
C10_ExclusiveAndBounded ==
    /\ \A s, t \in Holders : s # t => conn[s] # conn[t]
    /\ Cardinality(Holders) + others <= maxconn

====
